---- MODULE Spec2Model ----
(***************************************************************************)
(* Model of the mobile app's SDK initialization sequencing                 *)
(* (SDKInitializer in mobile/src/services/revenuecatService.ts) and of the *)
(* ADID retry helper (AdjustService.retrieveAdidWithRetry), followed by    *)
(* the backend's requireAuth hook, the mobile API client's response        *)
(* interceptor and the root layout's navigation effect.                    *)
(*                                                                         *)
(* JavaScript runs the code of one call without interruption between two   *)
(* await points; every action below is one such uninterrupted block.       *)
(* Several initializeAll() calls may be outstanding at once; they          *)
(* interleave at their await points only.                                  *)
(***************************************************************************)
EXTENDS Integers, Sequences, FiniteSets, TLC

(***************************************************************************)
(* Bounds of the model.                                                    *)
(***************************************************************************)
\* number of initializeAll() calls issued between two successful resets
MaxCalls == 3
\* largest maxAttempts handed to retrieveAdidWithRetry
MaxAttemptsBound == 4
\* largest maxTotalTimeMs, in clock units
MaxBudget == 10
\* largest initialDelayMs, in clock units
MaxInitialDelay == 2
\* longest time one lookup takes to settle, in clock units
MaxLookupTime == 2
\* how much later than asked a timer may fire, in clock units
MaxJitter == 1

Calls == 1..MaxCalls

\* number of initializeAll() calls issued between two successful resets when
\* reset() may also come while a sequence is in flight
MaxMidCalls == 2

MidCalls == Calls \cap (1..MaxMidCalls)

(***************************************************************************)
(* Values.                                                                 *)
(***************************************************************************)
\* JavaScript null (status.error, a lookup's result, the retry's result)
Null == "NULL"

RevenueCatFailed == "RevenueCat initialization failed"
AdjustFailed == "Adjust initialization failed"
\* line 343 carrying the text of line 325
ScateFailedCopied == "Adjust initialization failed"

ScateFailed == "Scate initialization failed"

Platforms == {"ios", "android"}

\* the store calls a run makes, in the order of the source
StepOrder(os) ==
  IF os = "ios"
    THEN <<"RevenueCat", "ATT.initialize", "ATT.requestPermissions",
           "Adjust", "Scate", "ADID">>
    ELSE <<"RevenueCat", "Adjust", "Scate", "ADID">>

StoreResets == <<"ATT", "Adjust", "RevenueCat", "Scate">>

VARIABLES
  platform,                 \* Platform.OS
  status,                   \* SDKInitializer._status
  initializationAttempted,  \* SDKInitializer._initializationAttempted
  pc,                       \* per call: the await point it is suspended at
  thrown,                   \* per call: the error a step has thrown, or Null
  result,                   \* per call: how the returned promise settled
  log,                      \* per call: the store calls it made, with outcome
  resetLog,                 \* store resets invoked by the last reset() call
  resetResult,              \* how the last reset() call ended
  retry,                    \* the activation record of retrieveAdidWithRetry
  auth,                     \* one request passing through requireAuth
  api,                      \* the API client: responses in flight, AsyncStorage
  nav                       \* the root layout: contexts and current route

sdkVars == <<platform, status, initializationAttempted, pc, thrown, result,
             log, resetLog, resetResult>>
appVars == <<auth, api, nav>>
vars == <<platform, status, initializationAttempted, pc, thrown, result,
          log, resetLog, resetResult, retry, auth, api, nav>>

InitialStatus ==
  [isInitializing |-> FALSE, isCompleted |-> FALSE, attInitialized |-> FALSE,
   revenueCatInitialized |-> FALSE, adjustInitialized |-> FALSE,
   scateInitialized |-> FALSE, adidRetrieved |-> FALSE, error |-> Null]

Entry(s, o) == [step |-> s, outcome |-> o]

SetLast(seq, o) == [seq EXCEPT ![Len(seq)].outcome = o]

(***************************************************************************)
(* initializeAll()                                                         *)
(***************************************************************************)
\* the guard of line 200 testing the wrong flag
InProgressWrongFlag == initializationAttempted /\ status.isCompleted

\* line 200: the re-entrancy guard
InProgress == initializationAttempted /\ status.isInitializing

\* the guard of line 205 treating Failed as final too
AlreadyCompletedOrFailed == status.isCompleted \/ status.error # Null

\* the guard of line 205 treating a run without ADID as not completed
AlreadyCompletedWithAdid == status.isCompleted /\ status.adidRetrieved

\* line 205
AlreadyCompleted == status.isCompleted

\* lines 212-213 without line 213
BeginRunKeepError(st) == [st EXCEPT !.isInitializing = TRUE]

\* lines 212-213
BeginRun(st) == [st EXCEPT !.isInitializing = TRUE, !.error = Null]

\* lines 238-240 without line 240
CatchStatusStillInitializing(st, msg) == [st EXCEPT !.error = msg]

\* lines 238-240 rolling the step flags back as well
CatchStatusRollback(st, msg) == [InitialStatus EXCEPT !.error = msg]

\* lines 238-240
CatchStatus(st, msg) == [st EXCEPT !.error = msg, !.isInitializing = FALSE]

\* lines 231-232
CompleteStatus(st) == [st EXCEPT !.isCompleted = TRUE, !.isInitializing = FALSE]

AwaitPoints == {"awaitRevenueCat", "awaitAdjust", "awaitScate"}

Running(c) == pc[c] \notin {"idle", "done"}

\* a call made while a sequence is in progress returns the status at once
CallSkipInProgress(c) ==
  /\ pc[c] = "idle"
  /\ InProgress
  /\ pc' = [pc EXCEPT ![c] = "done"]
  /\ result' = [result EXCEPT ![c] = "skippedInProgress"]
  /\ UNCHANGED <<platform, status, initializationAttempted, thrown, log,
                 resetLog, resetResult, retry, appVars>>

\* a call made after completion returns the status at once
CallSkipCompleted(c) ==
  /\ pc[c] = "idle"
  /\ ~InProgress
  /\ AlreadyCompleted
  /\ pc' = [pc EXCEPT ![c] = "done"]
  /\ result' = [result EXCEPT ![c] = "skippedCompleted"]
  /\ UNCHANGED <<platform, status, initializationAttempted, thrown, log,
                 resetLog, resetResult, retry, appVars>>

\* the call enters the sequence and runs _initializeRevenueCat, which has no
\* await of its own, up to the await of line 218
CallStart(c) ==
  /\ pc[c] = "idle"
  /\ ~InProgress
  /\ ~AlreadyCompleted
  /\ initializationAttempted' = TRUE
  /\ \E ok \in BOOLEAN :
       /\ status' = [BeginRun(status) EXCEPT
                       !.revenueCatInitialized = IF ok THEN TRUE ELSE @]
       /\ log' = [log EXCEPT ![c] =
                    <<Entry("RevenueCat", IF ok THEN "ok" ELSE "threw")>>]
       /\ thrown' = [thrown EXCEPT ![c] = IF ok THEN Null ELSE RevenueCatFailed]
  /\ pc' = [pc EXCEPT ![c] = "awaitRevenueCat"]
  /\ UNCHANGED <<platform, result, resetLog, resetResult, retry, appVars>>

\* lines 311-321 without the assignments of lines 311 and 314
AdjustTailNoAttFlag(c, lg, ok) ==
  /\ status' = [status EXCEPT !.adjustInitialized = IF ok THEN TRUE ELSE @]
  /\ log' = [log EXCEPT ![c] =
               Append(lg, Entry("Adjust", IF ok THEN "ok" ELSE "threw"))]
  /\ thrown' = [thrown EXCEPT ![c] = IF ok THEN Null ELSE AdjustFailed]
  /\ pc' = [pc EXCEPT ![c] = "awaitAdjust"]

\* lines 318-321 with line 320 moved in front of the store call of line 319
AdjustTailFlagFirst(c, lg, ok) ==
  /\ status' = [status EXCEPT !.attInitialized = TRUE,
                              !.adjustInitialized = TRUE]
  /\ log' = [log EXCEPT ![c] =
               Append(lg, Entry("Adjust", IF ok THEN "ok" ELSE "threw"))]
  /\ thrown' = [thrown EXCEPT ![c] = IF ok THEN Null ELSE AdjustFailed]
  /\ pc' = [pc EXCEPT ![c] = "awaitAdjust"]

\* the synchronous tail of _initializeAdjust: lines 311/314 and 318-321
AdjustTail(c, lg, ok) ==
  /\ status' = [status EXCEPT !.attInitialized = TRUE,
                              !.adjustInitialized = IF ok THEN TRUE ELSE @]
  /\ log' = [log EXCEPT ![c] =
               Append(lg, Entry("Adjust", IF ok THEN "ok" ELSE "threw"))]
  /\ thrown' = [thrown EXCEPT ![c] = IF ok THEN Null ELSE AdjustFailed]
  /\ pc' = [pc EXCEPT ![c] = "awaitAdjust"]

\* _initializeAdjust on iOS, up to the await of attStore.initialize()
StartAdjustIOS(c) ==
  /\ pc[c] = "awaitRevenueCat"
  /\ thrown[c] = Null
  /\ platform = "ios"
  /\ log' = [log EXCEPT ![c] = Append(@, Entry("ATT.initialize", "running"))]
  /\ pc' = [pc EXCEPT ![c] = "attInitialize"]
  /\ UNCHANGED <<platform, status, initializationAttempted, thrown, result,
                 resetLog, resetResult, retry, appVars>>

\* _initializeAdjust on Android: no await before it returns
StartAdjustAndroid(c) ==
  /\ pc[c] = "awaitRevenueCat"
  /\ thrown[c] = Null
  /\ platform # "ios"
  /\ \E ok \in BOOLEAN : AdjustTail(c, log[c], ok)
  /\ UNCHANGED <<platform, initializationAttempted, result,
                 resetLog, resetResult, retry, appVars>>

\* attStore.initialize() settles; on success requestPermissions() is called
AttInitializeSettles(c) ==
  /\ pc[c] = "attInitialize"
  /\ \E ok \in BOOLEAN :
       IF ok
         THEN /\ log' = [log EXCEPT ![c] =
                           Append(SetLast(@, "ok"),
                                  Entry("ATT.requestPermissions", "running"))]
              /\ pc' = [pc EXCEPT ![c] = "attRequestPermissions"]
              /\ UNCHANGED thrown
         ELSE /\ log' = [log EXCEPT ![c] = SetLast(@, "threw")]
              /\ thrown' = [thrown EXCEPT ![c] = AdjustFailed]
              /\ pc' = [pc EXCEPT ![c] = "awaitAdjust"]
  /\ UNCHANGED <<platform, status, initializationAttempted, result,
                 resetLog, resetResult,
                 retry, appVars>>

\* line 310 without its await: the rest of _initializeAdjust runs whatever
\* becomes of requestPermissions()
AttRequestPermissionsUnawaited(c) ==
  /\ pc[c] = "attRequestPermissions"
  /\ \E ok \in BOOLEAN, ok2 \in BOOLEAN :
       AdjustTail(c, SetLast(log[c], IF ok THEN "ok" ELSE "threw"), ok2)
  /\ UNCHANGED <<platform, initializationAttempted, result, resetLog,
                 resetResult, retry, appVars>>

\* attStore.requestPermissions() settles; on success the rest of
\* _initializeAdjust runs
AttRequestPermissionsSettles(c) ==
  /\ pc[c] = "attRequestPermissions"
  /\ \E ok \in BOOLEAN :
       IF ok
         THEN \E ok2 \in BOOLEAN : AdjustTail(c, SetLast(log[c], "ok"), ok2)
         ELSE /\ log' = [log EXCEPT ![c] = SetLast(@, "threw")]
              /\ thrown' = [thrown EXCEPT ![c] = AdjustFailed]
              /\ pc' = [pc EXCEPT ![c] = "awaitAdjust"]
              /\ UNCHANGED status
  /\ UNCHANGED <<platform, initializationAttempted, result,
                 resetLog, resetResult, retry, appVars>>

\* _initializeScate started without awaiting the outcome of _initializeAdjust
StartScateUnawaited(c) ==
  /\ pc[c] = "awaitAdjust"
  /\ \E ok \in BOOLEAN :
       /\ status' = [status EXCEPT
                       !.scateInitialized = IF ok THEN TRUE ELSE @]
       /\ log' = [log EXCEPT ![c] =
                    Append(@, Entry("Scate", IF ok THEN "ok" ELSE "threw"))]
       /\ thrown' = [thrown EXCEPT ![c] = IF ok THEN Null ELSE ScateFailed]
  /\ pc' = [pc EXCEPT ![c] = "awaitScate"]
  /\ UNCHANGED <<platform, initializationAttempted, result,
                 resetLog, resetResult, retry, appVars>>

\* _initializeScate, after the await of line 221
StartScate(c) ==
  /\ pc[c] = "awaitAdjust"
  /\ thrown[c] = Null
  /\ \E ok \in BOOLEAN :
       /\ status' = [status EXCEPT
                       !.scateInitialized = IF ok THEN TRUE ELSE @]
       /\ log' = [log EXCEPT ![c] =
                    Append(@, Entry("Scate", IF ok THEN "ok" ELSE "threw"))]
       /\ thrown' = [thrown EXCEPT ![c] = IF ok THEN Null ELSE ScateFailed]
  /\ pc' = [pc EXCEPT ![c] = "awaitScate"]
  /\ UNCHANGED <<platform, initializationAttempted, result,
                 resetLog, resetResult, retry, appVars>>

\* _retrieveAdid, after the await of line 224, up to the await of
\* adjustStore.retrieveAdidWithRetry()
StartRetrieveAdid(c) ==
  /\ pc[c] = "awaitScate"
  /\ thrown[c] = Null
  /\ log' = [log EXCEPT ![c] = Append(@, Entry("ADID", "running"))]
  /\ pc' = [pc EXCEPT ![c] = "retrieveAdid"]
  /\ UNCHANGED <<platform, status, initializationAttempted, thrown, result,
                 resetLog, resetResult, retry, appVars>>

\* lines 359-372 without the check of finalState.adid
AdidFlagUnchecked(o) == o # "threw"

\* lines 359-372: what _retrieveAdid records for each way the retrieval ends
AdidFlag(o) == o = "ok"

\* the store's retrieveAdidWithRetry() settles: it resolved and the store has
\* an adid ("ok"), it resolved and the store has none ("noadid"), or it threw
RetrieveAdidSettles(c) ==
  /\ pc[c] = "retrieveAdid"
  /\ \E o \in {"ok", "noadid", "threw"} :
       /\ status' = [status EXCEPT !.adidRetrieved = AdidFlag(o)]
       /\ log' = [log EXCEPT ![c] = SetLast(@, o)]
  /\ pc' = [pc EXCEPT ![c] = "awaitRetrieveAdid"]
  /\ UNCHANGED <<platform, initializationAttempted, thrown, result,
                 resetLog, resetResult,
                 retry, appVars>>

\* lines 231-235
Complete(c) ==
  /\ pc[c] = "awaitRetrieveAdid"
  /\ status' = CompleteStatus(status)
  /\ pc' = [pc EXCEPT ![c] = "done"]
  /\ result' = [result EXCEPT ![c] = "completed"]
  /\ UNCHANGED <<platform, initializationAttempted, thrown, log,
                 resetLog, resetResult,
                 retry, appVars>>

\* lines 237-245: the catch block of initializeAll
Catch(c) ==
  /\ pc[c] \in AwaitPoints
  /\ thrown[c] # Null
  /\ status' = CatchStatus(status, thrown[c])
  /\ initializationAttempted' = FALSE
  /\ pc' = [pc EXCEPT ![c] = "done"]
  /\ result' = [result EXCEPT ![c] = "rejected"]
  /\ UNCHANGED <<platform, thrown, log, resetLog, resetResult, retry, appVars>>

(***************************************************************************)
(* reset()                                                                 *)
(***************************************************************************)
\* reset() without the try/catch of lines 252 and 275-277
ResetOutcomeUncaught(storeThrew) == IF storeThrew THEN "threw" ELSE "returned"

\* lines 275-277: a store reset's throw is logged and swallowed ("caught");
\* reset() returns normally either way
ResetOutcome(storeThrew) == IF storeThrew THEN "caught" ELSE "returned"

\* lines 252-277 sparing the in-progress flags of a sequence in flight
ResetBodyKeepsInProgress ==
  \E k \in 0..Len(StoreResets) :
    /\ resetLog' = SubSeq(StoreResets, 1, IF k < Len(StoreResets) THEN k + 1 ELSE k)
    /\ resetResult' = ResetOutcome(k < Len(StoreResets))
    /\ IF k = Len(StoreResets)
         THEN /\ status' = [InitialStatus EXCEPT
                              !.isInitializing = status.isInitializing]
              /\ initializationAttempted' = initializationAttempted
              /\ pc' = [c \in Calls |-> IF pc[c] = "done" THEN "idle" ELSE pc[c]]
              /\ result' = [c \in Calls |-> IF pc[c] = "done" THEN "none" ELSE result[c]]
              /\ thrown' = [c \in Calls |-> IF pc[c] = "done" THEN Null ELSE thrown[c]]
              /\ log' = [c \in Calls |-> IF pc[c] = "done" THEN <<>> ELSE log[c]]
         ELSE UNCHANGED <<status, initializationAttempted, pc, result, thrown, log>>
    /\ UNCHANGED <<platform, retry, appVars>>

\* lines 252-277.  k store resets return before one throws (k = 4: none
\* throws).  A throw leaves lines 262-272 unexecuted.  The calls that have
\* settled are forgotten with the state they belonged to.
ResetBody ==
  \E k \in 0..Len(StoreResets) :
    /\ resetLog' = SubSeq(StoreResets, 1, IF k < Len(StoreResets) THEN k + 1 ELSE k)
    /\ resetResult' = ResetOutcome(k < Len(StoreResets))
    /\ IF k = Len(StoreResets)
         THEN /\ status' = InitialStatus
              /\ initializationAttempted' = FALSE
              /\ pc' = [c \in Calls |-> IF pc[c] = "done" THEN "idle" ELSE pc[c]]
              /\ result' = [c \in Calls |-> IF pc[c] = "done" THEN "none" ELSE result[c]]
              /\ thrown' = [c \in Calls |-> IF pc[c] = "done" THEN Null ELSE thrown[c]]
              /\ log' = [c \in Calls |-> IF pc[c] = "done" THEN <<>> ELSE log[c]]
         ELSE UNCHANGED <<status, initializationAttempted, pc, result, thrown, log>>
    /\ UNCHANGED <<platform, retry, appVars>>

\* reset() called while no sequence is in flight
Reset ==
  /\ \A c \in Calls : ~Running(c)
  /\ ResetBody

(***************************************************************************)
(* AdjustService.retrieveAdidWithRetry(maxAttempts, maxTotalTimeMs,        *)
(* initialDelayMs).  retry.now is Date.now(); it advances while the call   *)
(* is suspended in a timer or in a lookup.  retry.lookups records every    *)
(* invocation of Adjust.getAdid: the attempt, the elapsed time at which it *)
(* was made and what it produced.                                          *)
(***************************************************************************)
\* a lookup that throws instead of calling back
Throw == "THROW"

\* what Adjust.getAdid may hand to its callback
LookupValues == {Null, "", "abc", "xyz"}

Min(a, b) == IF a <= b THEN a ELSE b

\* line 88: if (result)
Truthy(v) == v # Null /\ v # ""

RetryIdle ==
  [pc |-> "idle", maxAttempts |-> 1, maxTotalTimeMs |-> 1, initialDelayMs |-> 1,
   now |-> 0, startTime |-> 0, cumulativeDelay |-> 0, attempt |-> 0,
   delay |-> 0, lookups |-> <<>>, result |-> Null, exit |-> "none"]

\* lines 100-102, reached by a break or by the end of the loop
ReturnNull(r, why) == [r EXCEPT !.pc = "done", !.result = Null, !.exit = why]

\* line 74 with > for >=
BudgetSpentStrict(r) == r.now - r.startTime > r.maxTotalTimeMs

\* line 74: the budget check made after the wait
BudgetSpent(r) == r.now - r.startTime >= r.maxTotalTimeMs

\* lines 73-86: after the wait, check the budget and invoke the lookup
AfterWait(r) ==
  IF BudgetSpent(r)
    THEN ReturnNull(r, "timeoutAfterWait")
    ELSE [r EXCEPT !.pc = "lookup",
                   !.lookups = Append(@, [attempt |-> r.attempt,
                                          at |-> r.now - r.startTime,
                                          result |-> "pending"])]

\* line 47 with < for <=
LoopConditionOffByOne(r) == r.attempt < r.maxAttempts

\* line 47: attempt <= maxAttempts
LoopCondition(r) == r.attempt <= r.maxAttempts

\* lines 58-61 doubling from the first attempt on
DelayDoubledEarly(r, remainingTime) ==
  IF r.attempt = 1
    THEN r.initialDelayMs
    ELSE Min(r.initialDelayMs * 2^(r.attempt - 1), remainingTime)

\* lines 58-61
Delay(r, remainingTime) ==
  IF r.attempt = 1
    THEN r.initialDelayMs
    ELSE Min(r.initialDelayMs * 2^(r.attempt - 2), remainingTime)

\* lines 47-70 without the break of lines 52-55
LoopTopNoBudgetCheck(r) ==
  IF ~LoopCondition(r)
    THEN ReturnNull(r, "exhausted")
    ELSE LET elapsedTime == r.now - r.startTime
             remainingTime == r.maxTotalTimeMs - elapsedTime - r.cumulativeDelay
         IN  IF r.attempt > 1
               THEN [r EXCEPT !.pc = "delay",
                              !.delay = Delay(r, remainingTime)]
               ELSE AfterWait([r EXCEPT !.delay = Delay(r, remainingTime)])

\* lines 47-70: the loop condition and the head of one iteration, up to the
\* timer (attempt > 1) or through to the lookup (attempt = 1)
LoopTop(r) ==
  IF ~LoopCondition(r)
    THEN ReturnNull(r, "exhausted")
    ELSE LET elapsedTime == r.now - r.startTime
             remainingTime == r.maxTotalTimeMs - elapsedTime - r.cumulativeDelay
         IN  IF remainingTime <= 0
               THEN ReturnNull(r, "timeoutBeforeAttempt")
               ELSE IF r.attempt > 1
                      THEN [r EXCEPT !.pc = "delay",
                                     !.delay = Delay(r, remainingTime)]
                      ELSE AfterWait([r EXCEPT !.delay = Delay(r, remainingTime)])

\* the call: lines 42-43 and the first iteration
RetryCall ==
  /\ retry.pc = "idle"
  /\ retry' = LoopTop([retry EXCEPT !.startTime = retry.now,
                                    !.cumulativeDelay = 0, !.attempt = 1])
  /\ UNCHANGED <<sdkVars, appVars>>

\* the timer of line 66 fires, no earlier than asked; lines 67-86 follow
DelayElapses ==
  /\ retry.pc = "delay"
  /\ \E late \in 0..MaxJitter :
       retry' = AfterWait([retry EXCEPT
                             !.now = @ + retry.delay + late,
                             !.cumulativeDelay = @ + retry.delay])
  /\ UNCHANGED <<sdkVars, appVars>>

\* lines 88-97 returning a value only from the last attempt
LookupDoneNoEarlyReturn(r, v) ==
  IF v # Throw /\ Truthy(v) /\ r.attempt = r.maxAttempts
    THEN [r EXCEPT !.pc = "done", !.result = v, !.exit = "found"]
    ELSE LoopTop([r EXCEPT !.attempt = @ + 1])

\* lines 88-97 without the catch of lines 95-97
LookupDonePropagates(r, v) ==
  IF v = Throw
    THEN [r EXCEPT !.pc = "done", !.result = Throw, !.exit = "threw"]
    ELSE IF Truthy(v)
           THEN [r EXCEPT !.pc = "done", !.result = v, !.exit = "found"]
           ELSE LoopTop([r EXCEPT !.attempt = @ + 1])

\* lines 88-97 for what the lookup produced
LookupDone(r, v) ==
  IF v # Throw /\ Truthy(v)
    THEN [r EXCEPT !.pc = "done", !.result = v, !.exit = "found"]
    ELSE LoopTop([r EXCEPT !.attempt = @ + 1])

\* lines 81-86 without the await: the loop moves on to the next attempt
\* while the lookup is still outstanding
LookupSettlesUnawaited ==
  /\ retry.pc = "lookup"
  /\ retry' = LoopTop([retry EXCEPT !.attempt = @ + 1])
  /\ UNCHANGED <<sdkVars, appVars>>

\* the lookup of lines 81-86 settles after some time, with a value or a throw
LookupSettles ==
  /\ retry.pc = "lookup"
  /\ \E took \in 0..MaxLookupTime, v \in LookupValues \cup {Throw} :
       retry' = LookupDone([retry EXCEPT
                              !.now = @ + took,
                              !.lookups[Len(retry.lookups)].result = v], v)
  /\ UNCHANGED <<sdkVars, appVars>>

(***************************************************************************)
(* The requireAuth hook of the backend (rest-api/plugins/auth.ts).  A      *)
(* header value and a token are sequences of characters.  A decoded        *)
(* payload is recorded by the JSON type of each field the schema names.    *)
(* jwt.verify, isUserExistByEmail and the error catalogue are outside the  *)
(* plugin: the first two may return or throw, and an error is known by its *)
(* kind and carries the status code the catalogue gives that kind.         *)
(***************************************************************************)
BearerPrefix == <<"B", "e", "a", "r", "e", "r", " ">>

\* String.prototype.startsWith
StartsWith(h, prefix) ==
  /\ Len(h) >= Len(prefix)
  /\ SubSeq(h, 1, Len(prefix)) = prefix

\* line 38: authHeader.substring(7, authHeader.length)
Substring7(h) == SubSeq(h, 8, Len(h))

\* the Authorization headers a request may carry: none, "", "Bearer ",
\* "Bearer t", "Bearer u", "bearer t", "Bearert", "t", "Basic t"
Headers ==
  {[present |-> FALSE, value |-> <<>>],
   [present |-> TRUE, value |-> <<>>],
   [present |-> TRUE, value |-> BearerPrefix],
   [present |-> TRUE, value |-> BearerPrefix \o <<"t">>],
   [present |-> TRUE, value |-> BearerPrefix \o <<"u">>],
   [present |-> TRUE, value |-> <<"b", "e", "a", "r", "e", "r", " ", "t">>],
   [present |-> TRUE, value |-> <<"B", "e", "a", "r", "e", "r", "t">>],
   [present |-> TRUE, value |-> <<"t">>],
   [present |-> TRUE, value |-> <<"B", "a", "s", "i", "c", " ", "t">>]}

\* the JSON type a payload field may have, or "missing"
FieldKinds == {"string", "number", "object", "missing"}

\* what jwt.verify may decode
Payloads ==
  [id : FieldKinds, email : FieldKinds, name : FieldKinds,
   exp : {"number", "object", "missing"}]

NoPayload ==
  [id |-> "missing", email |-> "missing", name |-> "missing", exp |-> "missing"]

\* lines 12-25 and 51-52: Type.String() under coerceTypes accepts a string
\* and a number (which it rewrites to a string), and the property is
\* required; Type.Optional(Type.Number()) accepts a number or no property
Validate(p) ==
  /\ \A f \in {"id", "email", "name"} : p[f] \in {"string", "number"}
  /\ p.exp \in {"number", "missing"}

\* what validate() leaves in decoded when it returns true
Coerce(p) ==
  [f \in DOMAIN p |->
     IF f \in {"id", "email", "name"} /\ p[f] = "number" THEN "string" ELSE p[f]]

\* ErrorFactory.tokenMissing(), tokenInvalid(), userNotFound(), and what
\* normalizeError makes of an error that is not of the catalogue
ErrorKinds == {"tokenMissing", "tokenInvalid", "userNotFound", "internal"}

\* line 75: normalizeError keeps an error of the catalogue
NormalizeError(e) == IF e \in ErrorKinds THEN e ELSE "internal"

\* appError.statusCode
StatusCode(kind) == <<"statusCode", kind>>

NoReply == <<"statusCode", "none">>

AuthIdle ==
  [pc |-> "idle", header |-> [present |-> FALSE, value |-> <<>>],
   verify |-> "none", payload |-> NoPayload, decoded |-> NoPayload,
   userExists |-> "none", hasUser |-> FALSE, user |-> NoPayload,
   hasToken |-> FALSE, token |-> <<>>, error |-> "none",
   replied |-> FALSE, replyStatus |-> NoReply]

\* lines 73-81: the catch block
CatchReply(a, e) ==
  [a EXCEPT !.pc = "done", !.error = e, !.replied = TRUE,
            !.replyStatus = StatusCode(NormalizeError(e))]

\* line 34: !authHeader || !authHeader.startsWith("Bearer ")
HeaderRejected(h) ==
  \/ ~h.present
  \/ h.value = <<>>
  \/ ~StartsWith(h.value, BearerPrefix)

\* lines 31-64: the hook up to the await of isUserExistByEmail
RequireAuth ==
  /\ auth.pc = "idle"
  /\ IF HeaderRejected(auth.header)
       THEN auth' = CatchReply(auth, "tokenMissing")
       ELSE \E threw \in BOOLEAN, p \in Payloads :
              auth' =
                IF threw
                  THEN CatchReply([auth EXCEPT !.verify = "threw"],
                                  "tokenInvalid")
                  ELSE IF ~Validate(p)
                         THEN CatchReply([auth EXCEPT !.verify = "returned",
                                                      !.payload = p],
                                         "tokenInvalid")
                         ELSE [auth EXCEPT !.pc = "awaitUserExists",
                                           !.verify = "returned",
                                           !.payload = p,
                                           !.decoded = Coerce(p)]
  /\ UNCHANGED <<sdkVars, retry, api, nav>>

\* lines 64-71 attaching whatever the existence check said
AfterUserExistsUnchecked(a, o) ==
  IF o = "threw"
    THEN CatchReply([a EXCEPT !.userExists = o], "databaseError")
    ELSE [a EXCEPT !.pc = "done", !.userExists = o,
                   !.hasUser = TRUE, !.user = a.decoded,
                   !.hasToken = TRUE, !.token = Substring7(a.header.value)]

\* lines 64-71, and the catch when the check says no or throws
AfterUserExists(a, o) ==
  CASE o = "yes" ->
         [a EXCEPT !.pc = "done", !.userExists = o,
                   !.hasUser = TRUE, !.user = a.decoded,
                   !.hasToken = TRUE, !.token = Substring7(a.header.value)]
    [] o = "no" -> CatchReply([a EXCEPT !.userExists = o], "userNotFound")
    [] o = "threw" -> CatchReply([a EXCEPT !.userExists = o], "databaseError")

\* isUserExistByEmail settles
UserExistsSettles ==
  /\ auth.pc = "awaitUserExists"
  /\ \E o \in {"yes", "no", "threw"} : auth' = AfterUserExists(auth, o)
  /\ UNCHANGED <<sdkVars, retry, api, nav>>

(***************************************************************************)
(* The response interceptor of the mobile API client (services/api).       *)
(* Several requests may be in flight; each error response passes through   *)
(* the interceptor on its way to the caller.  stored is the 'auth-storage' *)
(* entry of AsyncStorage.                                                  *)
(***************************************************************************)
\* largest number of requests in flight at once
MaxRequests == 2

Requests == 1..MaxRequests

\* error.response?.status: the status of an error response, or "none" for
\* an error without a response (network error, timeout)
ErrorStatuses == {"none", "400", "401", "403", "404", "500"}

\* the 'auth-storage' entry: absent, or one of two persisted sessions
StoredEntries == {Null, "session1", "session2"}

ApiIdle ==
  [pc |-> [r \in Requests |-> "idle"],
   status |-> [r \in Requests |-> "none"],
   outcome |-> [r \in Requests |-> "none"],
   stored |-> Null]

\* line 60: error.response?.status === 401
ClearsAuth(st) == st = "401"

\* the app persists a session (login, token refresh) or signs out
StoreAuth ==
  /\ \E e \in StoredEntries :
       /\ e # api.stored
       /\ api' = [api EXCEPT !.stored = e]
  /\ UNCHANGED <<sdkVars, retry, auth, nav>>

\* lines 55-57: a response outside the error range is handed on
ResponseOk(r) ==
  /\ api.pc[r] = "idle"
  /\ api' = [api EXCEPT !.pc[r] = "done", !.status[r] = "2xx",
                        !.outcome[r] = "resolved"]
  /\ UNCHANGED <<sdkVars, retry, auth, nav>>

\* lines 58-65 up to the await of line 61, or through to the rejection
ResponseError(r) ==
  /\ api.pc[r] = "idle"
  /\ \E st \in ErrorStatuses :
       api' = IF ClearsAuth(st)
                THEN [api EXCEPT !.pc[r] = "awaitRemoveItem", !.status[r] = st]
                ELSE [api EXCEPT !.pc[r] = "done", !.status[r] = st,
                                 !.outcome[r] = "rejectedWithError"]
  /\ UNCHANGED <<sdkVars, retry, auth, nav>>

\* AsyncStorage.removeItem settles: it resolves and line 65 rejects with the
\* error, or it rejects and the interceptor's promise rejects with that
RemoveItemSettles(r) ==
  /\ api.pc[r] = "awaitRemoveItem"
  /\ \E ok \in BOOLEAN :
       api' = IF ok
                THEN [api EXCEPT !.pc[r] = "done", !.stored = Null,
                                 !.outcome[r] = "rejectedWithError"]
                ELSE [api EXCEPT !.pc[r] = "done",
                                 !.outcome[r] = "rejectedWithStorageError"]
  /\ UNCHANGED <<sdkVars, retry, auth, nav>>

\* the caller has the outcome; the slot serves the next request
NextRequest(r) ==
  /\ api.pc[r] = "done"
  /\ api' = [api EXCEPT !.pc[r] = "idle", !.status[r] = "none",
                        !.outcome[r] = "none"]
  /\ UNCHANGED <<sdkVars, retry, auth, nav>>

(***************************************************************************)
(* The navigation effect of the root layout (mobile/app/_layout.tsx).      *)
(* segments is what useSegments() returns: the components of the current   *)
(* route.  A route handed to router.replace is written as the segments     *)
(* expo-router shows once the route is current.                            *)
(***************************************************************************)
\* targetRoute = null
NoRoute == <<>>

\* '/(tabs)'
TabsRoute == <<"(tabs)">>

\* '/(onboarding)/page-1'
OnboardingRoute == <<"(onboarding)", "page-1">>

\* the routes the app may be on, the root "/" (no segment) included
Routes ==
  {<<>>, <<"(tabs)">>, <<"(tabs)", "scan">>, <<"(tabs)", "add-receipt">>,
   <<"(onboarding)", "page-1">>, <<"(onboarding)", "page-2">>,
   <<"paywall">>, <<"(auth)", "login">>, <<"subscription">>, <<"settings">>,
   <<"scan">>, <<"+not-found">>}

\* line 137: segments[0]
CurrentSegment(segs) == IF segs = <<>> THEN "undefined" ELSE segs[1]

\* Array.prototype.includes
Includes(segs, x) == \E i \in 1..Len(segs) : segs[i] = x

\* line 121 (and line 198)
Waiting(n) ==
  \/ n.sessionLoading
  \/ ~n.isSessionChecked
  \/ n.subscriptionLoading
  \/ n.hasCompletedOnboarding = "null"

\* lines 138-139: customerInfo?.entitlements.active with at least one key
HasActiveSubscription(n) == n.customerInfo = "active"

\* lines 151-152
IsInCriticalScreen(segs) == \E x \in {"add-receipt", "scan"} : Includes(segs, x)

\* line 164
LegitimateScreensWithSubscription ==
  {"(tabs)", "scan", "subscription", "settings", "(auth)"}

\* line 180 without '(tabs)'
LegitimateScreensNoTabs ==
  {"paywall", "scan", "subscription", "settings", "(auth)"}

\* line 180
LegitimateScreens ==
  {"(tabs)", "paywall", "scan", "subscription", "settings", "(auth)"}

\* lines 160-185: where the user should be, or NoRoute
TargetRoute(n) ==
  LET currentSegment == CurrentSegment(n.segments)
  IN  IF HasActiveSubscription(n)
        THEN IF currentSegment \notin LegitimateScreensWithSubscription
               THEN TabsRoute
               ELSE NoRoute
        ELSE IF n.hasCompletedOnboarding # "true"
               THEN IF currentSegment \notin {"(onboarding)", "paywall"}
                      THEN OnboardingRoute
                      ELSE NoRoute
               ELSE IF currentSegment \notin LegitimateScreens
                      THEN TabsRoute
                      ELSE NoRoute

\* lines 119-195: one run of the effect.  did records what it did: "wait"
\* (lines 121-129), "skip" (lines 132-135 and 154-157), "stay" or "replace"
\* (lines 188-193)
NavigationEffect ==
  /\ nav' =
       IF Waiting(nav)
         THEN [nav EXCEPT !.did = "wait"]
         ELSE IF nav.sessionError \/ IsInCriticalScreen(nav.segments)
                THEN [nav EXCEPT !.did = "skip"]
                ELSE IF TargetRoute(nav) # NoRoute
                       THEN [nav EXCEPT !.did = "replace",
                                        !.segments = TargetRoute(nav)]
                       ELSE [nav EXCEPT !.did = "stay"]
  /\ UNCHANGED <<sdkVars, retry, auth, api>>

\* the session store or the RevenueCat store changes one of the values the
\* layout reads from it
ContextChanges ==
  /\ \/ \E b \in BOOLEAN : nav' = [nav EXCEPT !.sessionLoading = b, !.did = "none"]
     \/ \E b \in BOOLEAN : nav' = [nav EXCEPT !.isSessionChecked = b, !.did = "none"]
     \/ \E b \in BOOLEAN : nav' = [nav EXCEPT !.subscriptionLoading = b, !.did = "none"]
     \/ \E b \in BOOLEAN : nav' = [nav EXCEPT !.sessionError = b, !.did = "none"]
     \/ \E ci \in {"null", "noEntitlements", "active"} :
          nav' = [nav EXCEPT !.customerInfo = ci, !.did = "none"]
  /\ nav' # nav
  /\ UNCHANGED <<sdkVars, retry, auth, api>>

\* lines 50-60, 68-83 and 97-108: setHasCompletedOnboarding(hasCompleted)
OnboardingStatusRead ==
  /\ \E v \in {"true", "false"} :
       nav' = [nav EXCEPT !.hasCompletedOnboarding = v, !.did = "none"]
  /\ nav' # nav
  /\ UNCHANGED <<sdkVars, retry, auth, api>>

\* the user, or a screen, moves to another route
UserNavigates ==
  /\ \E segs \in Routes :
       /\ segs # nav.segments
       /\ nav' = [nav EXCEPT !.segments = segs, !.did = "none"]
  /\ UNCHANGED <<sdkVars, retry, auth, api>>

\* the layout before anything has loaded; line 27: useState(null)
NavAtMount ==
  [sessionLoading |-> TRUE, isSessionChecked |-> FALSE,
   subscriptionLoading |-> TRUE, hasCompletedOnboarding |-> "null",
   sessionError |-> FALSE, customerInfo |-> "null",
   segments |-> <<>>, did |-> "none"]

\* the request, the API client and the layout at rest
InitApp ==
  /\ auth = AuthIdle
  /\ api = ApiIdle
  /\ nav = NavAtMount

InitSDK ==
  /\ platform \in Platforms
  /\ status = InitialStatus
  /\ initializationAttempted = FALSE
  /\ pc = [c \in Calls |-> "idle"]
  /\ thrown = [c \in Calls |-> Null]
  /\ result = [c \in Calls |-> "none"]
  /\ log = [c \in Calls |-> <<>>]
  /\ resetLog = <<>>
  /\ resetResult = "none"

Init ==
  /\ InitSDK
  /\ retry = RetryIdle
  /\ InitApp

Next ==
  \/ \E c \in Calls : CallSkipInProgress(c)
  \/ \E c \in Calls : CallSkipCompleted(c)
  \/ \E c \in Calls : CallStart(c)
  \/ \E c \in Calls : StartAdjustIOS(c)
  \/ \E c \in Calls : StartAdjustAndroid(c)
  \/ \E c \in Calls : AttInitializeSettles(c)
  \/ \E c \in Calls : AttRequestPermissionsSettles(c)
  \/ \E c \in Calls : StartScate(c)
  \/ \E c \in Calls : StartRetrieveAdid(c)
  \/ \E c \in Calls : RetrieveAdidSettles(c)
  \/ \E c \in Calls : Complete(c)
  \/ \E c \in Calls : Catch(c)
  \/ Reset

Spec == Init /\ [][Next]_vars

\* retrieveAdidWithRetry on its own, for every configuration within the bounds
InitRetry ==
  /\ InitSDK
  /\ InitApp
  /\ platform = "ios"
  /\ \E n \in 1..MaxAttemptsBound, t \in 0..MaxBudget, d \in 1..MaxInitialDelay :
       retry = [RetryIdle EXCEPT !.maxAttempts = n, !.maxTotalTimeMs = t,
                                 !.initialDelayMs = d]

NextRetry ==
  \/ RetryCall
  \/ DelayElapses
  \/ LookupSettles

SpecRetry == InitRetry /\ [][NextRetry]_vars

\* one request through requireAuth, for every header
InitAuth ==
  /\ InitSDK
  /\ retry = RetryIdle
  /\ api = ApiIdle
  /\ nav = NavAtMount
  /\ platform = "ios"
  /\ \E h \in Headers : auth = [AuthIdle EXCEPT !.header = h]

NextAuth ==
  \/ RequireAuth
  \/ UserExistsSettles

SpecAuth == InitAuth /\ [][NextAuth]_vars

\* the API client serving requests while the app signs in and out
InitApi ==
  /\ InitSDK
  /\ retry = RetryIdle
  /\ auth = AuthIdle
  /\ platform = "ios"
  /\ nav = NavAtMount
  /\ \E e \in StoredEntries : api = [ApiIdle EXCEPT !.stored = e]

NextApi ==
  \/ StoreAuth
  \/ \E r \in Requests : ResponseOk(r)
  \/ \E r \in Requests : ResponseError(r)
  \/ \E r \in Requests : RemoveItemSettles(r)
  \/ \E r \in Requests : NextRequest(r)

SpecApi == InitApi /\ [][NextApi]_vars

\* the root layout from its mount on, on whatever route the app was opened
InitNav ==
  /\ InitSDK
  /\ retry = RetryIdle
  /\ auth = AuthIdle
  /\ api = ApiIdle
  /\ platform = "ios"
  /\ \E sl, sc, bl, se \in BOOLEAN, ci \in {"null", "noEntitlements", "active"},
        segs \in Routes :
       nav = [NavAtMount EXCEPT !.sessionLoading = sl,
                                !.isSessionChecked = sc,
                                !.subscriptionLoading = bl,
                                !.sessionError = se, !.customerInfo = ci,
                                !.segments = segs]

NextNav ==
  \/ NavigationEffect
  \/ ContextChanges
  \/ OnboardingStatusRead
  \/ UserNavigates

SpecNav == InitNav /\ [][NextNav]_vars

\* reset() called while a sequence is in flight, which nothing in the code
\* prevents
ResetMidFlight ==
  /\ \E c \in Calls : Running(c)
  /\ ResetBody

NextMid ==
  \/ \E c \in MidCalls : CallSkipInProgress(c)
  \/ \E c \in MidCalls : CallSkipCompleted(c)
  \/ \E c \in MidCalls : CallStart(c)
  \/ \E c \in MidCalls : StartAdjustIOS(c)
  \/ \E c \in MidCalls : StartAdjustAndroid(c)
  \/ \E c \in MidCalls : AttInitializeSettles(c)
  \/ \E c \in MidCalls : AttRequestPermissionsSettles(c)
  \/ \E c \in MidCalls : StartScate(c)
  \/ \E c \in MidCalls : StartRetrieveAdid(c)
  \/ \E c \in MidCalls : RetrieveAdidSettles(c)
  \/ \E c \in MidCalls : Complete(c)
  \/ \E c \in MidCalls : Catch(c)
  \/ Reset
  \/ ResetMidFlight

\* the initializer with reset() allowed at any time
SpecMid == Init /\ [][NextMid]_vars

\* The two components side by side: a behaviour exercises either the
\* initializer (the retry is "off") or one call of retrieveAdidWithRetry
\* (every initializeAll() slot is "off").
InitBoth ==
  \/ /\ InitSDK
     /\ InitApp
     /\ retry = [RetryIdle EXCEPT !.pc = "off"]
  \/ /\ InitApp
     /\ platform = "ios"
     /\ status = InitialStatus
     /\ initializationAttempted = FALSE
     /\ pc = [c \in Calls |-> "off"]
     /\ thrown = [c \in Calls |-> Null]
     /\ result = [c \in Calls |-> "none"]
     /\ log = [c \in Calls |-> <<>>]
     /\ resetLog = <<>>
     /\ resetResult = "none"
     /\ \E n \in 1..MaxAttemptsBound, t \in 0..MaxBudget, d \in 1..MaxInitialDelay :
          retry = [RetryIdle EXCEPT !.maxAttempts = n, !.maxTotalTimeMs = t,
                                    !.initialDelayMs = d]

NextBoth ==
  \/ Next
  \/ NextRetry

SpecBoth == InitBoth /\ [][NextBoth]_vars

\* the event loop resumes a suspended initializeAll() once what it awaits
\* has settled, and every store call settles
SdkContinues ==
  \E c \in Calls :
    \/ StartAdjustIOS(c)
    \/ StartAdjustAndroid(c)
    \/ AttInitializeSettles(c)
    \/ AttRequestPermissionsSettles(c)
    \/ StartScate(c)
    \/ StartRetrieveAdid(c)
    \/ RetrieveAdidSettles(c)
    \/ Complete(c)
    \/ Catch(c)

\* every timer fires and every lookup settles
RetryContinues ==
  \/ DelayElapses
  \/ LookupSettles

SpecLive ==
  /\ InitBoth
  /\ [][NextBoth]_vars
  /\ WF_vars(SdkContinues)
  /\ WF_vars(RetryContinues)

TypeOK ==
  /\ platform \in Platforms
  /\ status.error \in {Null, RevenueCatFailed, AdjustFailed, ScateFailed}
  /\ initializationAttempted \in BOOLEAN

(***************************************************************************)
(* Properties of initializeAll() and reset(), checked under Spec.          *)
(***************************************************************************)
Last(seq) == seq[Len(seq)]

\* how often the store call s has been made since the last reset
Invocations(s) ==
  Cardinality({ci \in Calls \X (1..6) :
                 /\ ci[2] <= Len(log[ci[1]])
                 /\ log[ci[1]][ci[2]].step = s})

NoRunFailed == \A c \in Calls : thrown[c] = Null

StepsOf(os) == {StepOrder(os)[i] : i \in 1..Len(StepOrder(os))}

\* C1: a call made while a sequence is in progress starts no step; at most
\* one execution of the sequence is in progress at any time; and when the
\* sequence has completed without a failed run, every store call of the
\* sequence (RevenueCat, the two ATT calls on iOS, Adjust, Scate, ADID) has
\* been made exactly once over all the calls.
C1_ConcurrentCallStartsNothing ==
  /\ \A c \in Calls : result[c] = "skippedInProgress" => log[c] = <<>>
  /\ Cardinality({c \in Calls : Running(c)}) <= 1
  /\ NoRunFailed => \A s \in StepsOf("ios") : Invocations(s) <= 1
  /\ (NoRunFailed /\ status.isCompleted) =>
        /\ \A s \in StepsOf(platform) : Invocations(s) = 1
        /\ \A s \in StepsOf("ios") \ StepsOf(platform) : Invocations(s) = 0

C1_Witness ==
  \E c1, c2 \in Calls :
    /\ result[c1] = "completed"
    /\ result[c2] = "skippedInProgress"
    /\ platform = "ios"

\* C2: isCompleted = true and error != null never hold together.
C2_CompletedExcludesError == ~(status.isCompleted /\ status.error # Null)

C2_Witness ==
  \E c1, c2 \in Calls :
    /\ result[c1] = "rejected"
    /\ result[c2] = "completed"
    /\ status.isCompleted

\* C3: the store calls of one run are made in the fixed order RevenueCat,
\* (ATT on iOS,) Adjust, Scate, ADID; every call but the latest of a run has
\* resolved successfully; at most one call of a run is executing.
C3_StepsInOrder ==
  \A c \in Calls :
    /\ Len(log[c]) <= Len(StepOrder(platform))
    /\ \A i \in 1..Len(log[c]) : log[c][i].step = StepOrder(platform)[i]
    /\ \A i \in 1..(Len(log[c]) - 1) : log[c][i].outcome = "ok"
    /\ Cardinality({i \in 1..Len(log[c]) : log[c][i].outcome = "running"}) <= 1

C3_Witness ==
  \E c \in Calls :
    /\ platform = "ios"
    /\ Len(log[c]) = 6
    /\ Last(log[c]).outcome = "running"

\* C4: when the RevenueCat, Adjust or Scate step throws, the call starts no
\* further step, and it ends rejected with the error, leaving error set to
\* the message, isInitializing false and isCompleted false.
C4_StepFailureRejects ==
  /\ [](\A c \in Calls :
          /\ (log[c] # <<>> /\ Last(log[c]).outcome = "threw"
                /\ Last(log[c]).step # "ADID") => thrown[c] # Null
          /\ thrown[c] # Null =>
               /\ Last(log[c]).outcome = "threw"
               /\ result[c] \in {"none", "rejected"}
               /\ pc[c] = "done" => result[c] = "rejected")
  /\ [][\A c \in Calls :
          (thrown[c] # Null /\ pc[c] # "done" /\ pc'[c] # pc[c]) =>
             /\ log'[c] = log[c]
             /\ result'[c] = "rejected"
             /\ status'.error = thrown[c]
             /\ status'.error # Null
             /\ ~status'.isInitializing
             /\ ~status'.isCompleted]_vars

C4_Witness ==
  \E c \in Calls :
    /\ result[c] = "rejected"
    /\ thrown[c] = ScateFailed
    /\ status.error = ScateFailed
    /\ ~status.isInitializing

\* C5: when the ADID retrieval throws or leaves no ADID, the call still
\* resolves, with adidRetrieved false, isCompleted true, isInitializing
\* false and error null.
C5_AdidFailureTolerated ==
  /\ [](\A c \in Calls :
          (log[c] # <<>> /\ Last(log[c]).step = "ADID") => thrown[c] = Null)
  /\ [][\A c \in Calls :
          (pc[c] = "awaitRetrieveAdid" /\ pc'[c] # pc[c]
             /\ Last(log[c]).outcome \in {"noadid", "threw"}) =>
             /\ result'[c] = "completed"
             /\ ~status'.adidRetrieved
             /\ status'.isCompleted
             /\ ~status'.isInitializing
             /\ status'.error = Null]_vars

C5_Witness ==
  \E c \in Calls :
    /\ result[c] = "completed"
    /\ Last(log[c]).outcome = "threw"
    /\ status.isCompleted
    /\ ~status.adidRetrieved

\* C6: a call made in Failed (error set, isInitializing false) is not
\* skipped: it clears error, sets isInitializing and starts at RevenueCat.
C6_RetryAfterFailure ==
  [][\A c \in Calls :
       (pc[c] = "idle" /\ pc'[c] # "idle"
          /\ status.error # Null /\ ~status.isInitializing) =>
          /\ result'[c] = "none"
          /\ pc'[c] = "awaitRevenueCat"
          /\ status'.error = Null
          /\ status'.isInitializing
          /\ Len(log'[c]) = 1
          /\ log'[c][1].step = "RevenueCat"]_vars

C6_Witness ==
  \E c1, c2 \in Calls :
    /\ result[c1] = "rejected"
    /\ thrown[c1] = ScateFailed
    /\ pc[c2] = "awaitRevenueCat"
    /\ status.error = Null
    /\ status.isInitializing

\* C7: once isCompleted is true, a call invokes no step, leaves the status
\* record as it is and resolves with it; isCompleted stays true until reset().
C7_CompletedIsIdempotent ==
  /\ [][\A c \in Calls :
          (pc[c] = "idle" /\ pc'[c] # "idle" /\ status.isCompleted) =>
             /\ status' = status
             /\ initializationAttempted' = initializationAttempted
             /\ log' = log
             /\ log[c] = <<>>
             /\ pc'[c] = "done"
             /\ result'[c] = "skippedCompleted"]_vars
  /\ [][(status.isCompleted /\ ~status'.isCompleted) => Reset]_vars

C7_Witness ==
  \E c1, c2 \in Calls :
    /\ result[c1] = "completed"
    /\ result[c2] = "skippedCompleted"
    /\ status.isCompleted

\* C12: every reset() call made while no sequence is in flight invokes the
\* reset of all four stores and leaves every flag false, isInitializing and
\* isCompleted false, error null and the attempt flag cleared.
C12_ResetClearsEverything ==
  [][Reset => /\ resetLog' = StoreResets
              /\ status' = InitialStatus
              /\ ~initializationAttempted']_vars

\* C13: reset() never throws to its caller, also when a store reset throws.
C13_ResetNeverThrows == resetResult # "threw"

C13_Witness ==
  /\ resetResult = "caught"
  /\ Len(resetLog) < Len(StoreResets)
  /\ status.isCompleted

\* the step a message names: the text lines 294, 325 and 343 put before the
\* colon (what follows the colon is the store's own error text)
MessageStep(msg) ==
  IF msg = RevenueCatFailed THEN "RevenueCat"
  ELSE IF msg = AdjustFailed THEN "Adjust"
  ELSE IF msg = ScateFailed THEN "Scate"
  ELSE "none"

\* the step a store call belongs to, ATT taken as a step of its own
StepOfCall(s) ==
  IF s \in {"ATT.initialize", "ATT.requestPermissions"} THEN "ATT" ELSE s

\* the step method that makes a store call: _initializeAdjust makes the ATT
\* calls too
MethodOfCall(s) ==
  IF s \in {"ATT.initialize", "ATT.requestPermissions"} THEN "Adjust" ELSE s

\* C14 as stated: the error of a failed run names the step that failed, ATT
\* permission being one of the steps.
C14_ErrorNamesFailedStep ==
  \A c \in Calls :
    thrown[c] # Null => MessageStep(thrown[c]) = StepOfCall(Last(log[c]).step)

\* C14, amended: the error thrown by initializeAll() and the message stored
\* in status.error name the step method that failed, RevenueCat, Adjust or
\* Scate; a failure of an ATT call is reported under the name of Adjust.
C14_ErrorNamesFailedMethod ==
  /\ [](\A c \in Calls :
          thrown[c] # Null =>
            MessageStep(thrown[c]) = MethodOfCall(Last(log[c]).step))
  /\ [][\A c \in Calls :
          (thrown[c] # Null /\ pc[c] # "done" /\ pc'[c] = "done") =>
             /\ result'[c] = "rejected"
             /\ status'.error = thrown[c]]_vars

C14_Witness ==
  \E c \in Calls :
    /\ result[c] = "rejected"
    /\ Last(log[c]).step = "ATT.requestPermissions"
    /\ status.error = AdjustFailed

StepFlags ==
  {"revenueCatInitialized", "attInitialized", "adjustInitialized",
   "scateInitialized", "adidRetrieved"}

\* C15: between resets a step flag that is true stays true, whatever the
\* initializeAll() calls do; a run that fails leaves every step flag as it
\* was when the step threw; only reset() takes a flag back to false.
C15_FlagsMonotone ==
  /\ [][(\A f \in StepFlags : status[f] => status'[f]) \/ Reset]_vars
  /\ [][\A c \in Calls :
          (thrown[c] # Null /\ pc[c] # "done" /\ pc'[c] = "done") =>
             \A f \in StepFlags : status'[f] = status[f]]_vars

C15_Witness ==
  \E c \in Calls :
    /\ result[c] = "rejected"
    /\ thrown[c] = ScateFailed
    /\ status.revenueCatInitialized
    /\ status.attInitialized
    /\ status.adjustInitialized
    /\ ~status.scateInitialized

AttCalls == {"ATT.initialize", "ATT.requestPermissions"}

Has(lg, e) == \E i \in 1..Len(lg) : lg[i] = e

AttThrew(c) ==
  /\ log[c] # <<>>
  /\ Last(log[c]).step \in AttCalls
  /\ Last(log[c]).outcome = "threw"

C17_EveryRunEnds ==
  /\ status.isInitializing ~>
       (~status.isInitializing /\ (status.isCompleted \/ status.error # Null))
  /\ \A c \in Calls :
       (pc[c] \notin {"idle", "done", "off"}) ~>
          (pc[c] = "done" /\ result[c] \in {"completed", "rejected"})
  /\ (retry.pc \in {"delay", "lookup"}) ~> (retry.pc = "done")
  /\ [](Len(retry.lookups) <= retry.maxAttempts)

C17_Witness ==
  \E c1, c2 \in Calls :
    /\ result[c1] = "rejected"
    /\ result[c2] = "completed"
    /\ ~status.isInitializing
    /\ status.isCompleted

InFlightPoints == {"attInitialize", "attRequestPermissions", "retrieveAdid"}

\* C18: while a store call of a run has not settled, isInitializing is true,
\* the run starts nothing and the status record does not change, and every
\* initializeAll() call made meanwhile returns at once without a step; a
\* lookup in flight is left only by its settling, whatever time has passed.
C18_PendingStepStalls ==
  /\ [](\A c \in Calls :
          pc[c] \in InFlightPoints =>
             /\ status.isInitializing
             /\ ~status.isCompleted
             /\ Last(log[c]).outcome = "running")
  /\ [][\A c \in Calls :
          (pc[c] \in InFlightPoints /\ pc'[c] = pc[c]) =>
             /\ status' = status
             /\ log'[c] = log[c]
             /\ \A d \in Calls :
                  (pc[d] = "idle" /\ pc'[d] # "idle") =>
                     /\ pc'[d] = "done"
                     /\ result'[d] = "skippedInProgress"
                     /\ log'[d] = <<>>]_vars
  /\ [][(retry.pc = "lookup" /\ retry' # retry) =>
          /\ Len(retry'.lookups) >= Len(retry.lookups)
          /\ retry'.lookups[Len(retry.lookups)].result # "pending"]_vars

C18_Witness ==
  \E c, d \in Calls :
    /\ pc[c] = "retrieveAdid"
    /\ result[d] = "skippedInProgress"
    /\ status.isInitializing

\* C19: a reset() made while a sequence is in flight leaves that sequence
\* running and puts a fresh status record in place, so the guard of
\* initializeAll() is open again: a call made after it starts a second
\* sequence, and the sequence in flight goes on to write its flags and
\* isCompleted into the fresh record.
C19_ResetDoesNotCancel ==
  /\ [][(ResetMidFlight /\ resetResult' = "returned") =>
          /\ \A c \in Calls :
               Running(c) => /\ pc'[c] = pc[c]
                             /\ log'[c] = log[c]
                             /\ thrown'[c] = thrown[c]
          /\ status' = InitialStatus
          /\ ~initializationAttempted']_vars
  /\ [][\A c \in Calls :
          (pc[c] = "idle" /\ pc'[c] # "idle"
             /\ ~status.isInitializing /\ ~status.isCompleted) =>
             /\ pc'[c] = "awaitRevenueCat"
             /\ status'.isInitializing]_vars
  /\ [][\A c \in Calls :
          (pc[c] = "awaitRetrieveAdid" /\ pc'[c] = "done") =>
             /\ result'[c] = "completed"
             /\ status'.isCompleted
             /\ \A f \in StepFlags : status'[f] = status[f]]_vars

\* a sequence has completed while a second one, started after a reset, is
\* in progress, and isCompleted is true with an earlier step's flag false
C19_Witness ==
  \E a, b \in Calls :
    /\ result[a] = "completed"
    /\ Running(b)
    /\ status.isCompleted
    /\ ~status.scateInitialized

(***************************************************************************)
(* Properties of retrieveAdidWithRetry, checked under SpecRetry.           *)
(***************************************************************************)
Elapsed(r) == r.now - r.startTime

Produced(vals) ==
  {i \in 1..Len(retry.lookups) : retry.lookups[i].result \in vals}

\* the least element of a non-empty set of numbers
Least(S) == CHOOSE i \in S : \A j \in S : i <= j

\* C8 as stated: the first non-null value the lookup produces, the empty
\* string included, is returned, and no lookup follows it.
C8_ReturnsFirstNonNull ==
  LET hits == Produced(LookupValues \ {Null})
  IN  hits # {} =>
        /\ retry.pc = "done"
        /\ retry.result = retry.lookups[Least(hits)].result
        /\ Len(retry.lookups) = Least(hits)

\* C8, amended: the first non-null, non-empty value the lookup produces is
\* returned at once, after exactly as many lookups as it took to produce it;
\* an empty string counts as no result.
C8_ReturnsFirstNonEmpty ==
  LET hits == Produced(LookupValues \ {Null, ""})
  IN  /\ hits # {} =>
          /\ retry.pc = "done"
          /\ retry.result = retry.lookups[Least(hits)].result
          /\ Len(retry.lookups) = Least(hits)
      /\ (retry.pc = "done" /\ hits = {}) => retry.result = Null

C8_Witness ==
  /\ retry.pc = "done"
  /\ Len(retry.lookups) = 3
  /\ retry.lookups[1].result = Null
  /\ retry.lookups[2].result = ""
  /\ retry.lookups[3].result = "abc"
  /\ retry.result = "abc"

\* C9: the lookup is never invoked more than maxAttempts times; when it
\* always returns null and the call does not stop on the time budget, it is
\* invoked exactly maxAttempts times and the result is null.  With
\* maxAttempts 3, initialDelayMs 1 and maxTotalTimeMs 10 (100 and 1000 ms),
\* prompt lookups and timers, that is three invocations.
C9_AlwaysNullUsesAllAttempts ==
  LET allNull == Produced({Null}) = 1..Len(retry.lookups)
  IN  /\ Len(retry.lookups) <= retry.maxAttempts
      /\ (retry.pc = "done" /\ allNull) => retry.result = Null
      /\ (retry.pc = "done" /\ allNull /\ retry.exit = "exhausted") =>
            Len(retry.lookups) = retry.maxAttempts
      /\ (retry.pc = "done" /\ allNull /\ retry.maxAttempts = 3
            /\ retry.initialDelayMs = 1 /\ retry.maxTotalTimeMs = 10
            /\ Elapsed(retry) = retry.cumulativeDelay) =>
            /\ Len(retry.lookups) = 3
            /\ retry.lookups[2].at = 1
            /\ retry.lookups[3].at = 3

C9_Witness ==
  /\ retry.pc = "done"
  /\ retry.maxAttempts = 3
  /\ retry.initialDelayMs = 1
  /\ retry.maxTotalTimeMs = 10
  /\ Len(retry.lookups) = 3
  /\ \A i \in 1..3 : retry.lookups[i].result = Null
  /\ retry.result = Null

\* C10: no lookup is invoked at an elapsed time >= maxTotalTimeMs; once the
\* elapsed time has reached the budget the call invokes no further lookup
\* and returns, with null unless the lookup just settled produced a value.
C10_NoLookupPastBudget ==
  /\ [](\A i \in 1..Len(retry.lookups) :
          retry.lookups[i].at < retry.maxTotalTimeMs)
  /\ [][(retry' # retry /\ Elapsed(retry') >= retry.maxTotalTimeMs) =>
          /\ Len(retry'.lookups) = Len(retry.lookups)
          /\ retry'.pc = "done"
          /\ retry'.exit # "found" => retry'.result = Null]_vars

C10_Witness ==
  /\ retry.pc = "done"
  /\ retry.exit = "timeoutAfterWait"
  /\ Len(retry.lookups) >= 1
  /\ retry.result = Null

\* C11: a throw of the lookup never leaves the call: the attempt counts like
\* a null result, the loop goes on to the next attempt when attempts and
\* budget remain, and a lookup that throws every time is invoked maxAttempts
\* times (unless the budget ends the loop first) before null is returned.
C11_LookupThrowIsSwallowed ==
  /\ [](retry.exit # "threw" /\ retry.result # Throw)
  /\ [](LET allThrew == Produced({Throw}) = 1..Len(retry.lookups)
        IN  /\ (retry.pc = "done" /\ allThrew) => retry.result = Null
            /\ (retry.pc = "done" /\ allThrew /\ retry.exit = "exhausted") =>
                  Len(retry.lookups) = retry.maxAttempts)
  /\ [][(retry.pc = "lookup" /\ retry' # retry
           /\ retry'.lookups[Len(retry.lookups)].result = Throw) =>
          IF /\ retry.attempt < retry.maxAttempts
             /\ retry.maxTotalTimeMs - Elapsed(retry') - retry.cumulativeDelay > 0
            THEN /\ retry'.pc = "delay"
                 /\ retry'.attempt = retry.attempt + 1
                 /\ Len(retry'.lookups) = Len(retry.lookups)
            ELSE /\ retry'.pc = "done"
                 /\ retry'.result = Null]_vars

C11_Witness ==
  /\ retry.pc = "done"
  /\ retry.maxAttempts = 3
  /\ Len(retry.lookups) = 3
  /\ \A i \in 1..3 : retry.lookups[i].result = Throw
  /\ retry.result = Null
  /\ retry.exit = "exhausted"

\* a lookup that has been invoked and has neither resolved nor thrown
Outstanding(i) == retry.lookups[i].result = "pending"

\* C20: within one call of retrieveAdidWithRetry at most one lookup is in
\* flight at any time.  The i-th lookup is that of attempt i; only the latest
\* lookup can be outstanding, and only while the call is suspended in it;
\* during a backoff delay no lookup is outstanding; and the attempt counter
\* moves from k to k+1 only in the step in which the lookup of attempt k
\* resolves or throws.
C20_OneLookupInFlight ==
  /\ [](LET n == Len(retry.lookups)
        IN  /\ \A i \in 1..n : retry.lookups[i].attempt = i
            /\ \A i \in 1..n : Outstanding(i) => (i = n /\ retry.pc = "lookup")
            /\ Cardinality({i \in 1..n : Outstanding(i)}) <= 1
            /\ retry.pc = "lookup" => (n = retry.attempt /\ Outstanding(n))
            /\ retry.pc = "delay" => n = retry.attempt - 1)
  /\ [][(retry.attempt >= 1 /\ retry'.attempt # retry.attempt) =>
          /\ retry'.attempt = retry.attempt + 1
          /\ retry.pc = "lookup"
          /\ Len(retry.lookups) = retry.attempt
          /\ Outstanding(retry.attempt)
          /\ retry'.lookups[retry.attempt].result # "pending"]_vars

\* the third attempt's lookup is in flight after one lookup threw and one
\* called back with an empty value
C20_Witness ==
  /\ retry.pc = "lookup"
  /\ retry.attempt = 3
  /\ retry.lookups[1].result = Throw
  /\ retry.lookups[2].result = ""
  /\ Outstanding(3)

(***************************************************************************)
(* Invariants of the status record, checked under Spec (reset() is called  *)
(* only while no sequence is in flight).                                   *)
(***************************************************************************)
\* C25: the step flags form a prefix of the step order: adidRetrieved implies
\* scateInitialized, scateInitialized implies adjustInitialized,
\* adjustInitialized implies attInitialized, and attInitialized implies
\* revenueCatInitialized.
C25_FlagsFormPrefix ==
  /\ status.adidRetrieved => status.scateInitialized
  /\ status.scateInitialized => status.adjustInitialized
  /\ status.adjustInitialized => status.attInitialized
  /\ status.attInitialized => status.revenueCatInitialized

\* a retry after a run that failed in Scate has itself failed in RevenueCat:
\* the flags are a proper, non-empty prefix
C25_Witness ==
  /\ status.adjustInitialized
  /\ ~status.scateInitialized
  /\ status.error = RevenueCatFailed
  /\ \E c \in Calls : Has(log[c], Entry("Scate", "threw"))

\* C26: isCompleted implies that revenueCatInitialized, attInitialized,
\* adjustInitialized and scateInitialized are all true; adidRetrieved may be
\* true or false in a Completed state.
C26_CompletedMeansStepsDone ==
  status.isCompleted =>
    /\ status.revenueCatInitialized
    /\ status.attInitialized
    /\ status.adjustInitialized
    /\ status.scateInitialized
    /\ status.adidRetrieved \in BOOLEAN

\* Completed without the ADID, after a run that had failed in Adjust
C26_Witness ==
  /\ status.isCompleted
  /\ ~status.adidRetrieved
  /\ \E c \in Calls : Has(log[c], Entry("Adjust", "threw"))

\* C27: isInitializing implies isCompleted = false and error = null, and
\* _initializationAttempted is true exactly when isInitializing or
\* isCompleted is true.
C27_InitializingExcludesTerminal ==
  /\ status.isInitializing => (~status.isCompleted /\ status.error = Null)
  /\ initializationAttempted <=> (status.isInitializing \/ status.isCompleted)

\* a retry is in progress: the error of the failed run has been cleared and
\* the attempt flag is set again
C27_Witness ==
  /\ status.isInitializing
  /\ initializationAttempted
  /\ \E c \in Calls : result[c] = "rejected"

\* the store call whose success a step flag records
FlagStep(f) ==
  CASE f = "revenueCatInitialized" -> "RevenueCat"
    [] f = "attInitialized" -> "ATT.requestPermissions"
    [] f = "adjustInitialized" -> "Adjust"
    [] f = "scateInitialized" -> "Scate"
    [] f = "adidRetrieved" -> "ADID"

\* the step of flag f has succeeded in the run of call c.  Off iOS there is
\* no ATT call: the ATT step has succeeded once _initializeAdjust has got to
\* line 314, that is, once the run has made its Adjust store call.
SucceededIn(c, f) ==
  IF f = "attInitialized" /\ platform # "ios"
    THEN \E i \in 1..Len(log[c]) : log[c][i].step = "Adjust"
    ELSE Has(log[c], Entry(FlagStep(f), "ok"))

\* C28 as stated: whenever a step's flag is true while a run of
\* initializeAll() is in progress, that step has already succeeded in the
\* current run.
C28_FlagMeansSucceededInRun ==
  \A c \in Calls :
    Running(c) => \A f \in StepFlags : status[f] => SucceededIn(c, f)

\* C28 amended: whenever a step's flag is true while a run is in progress,
\* that step has succeeded in the current run or in an earlier run since the
\* last reset; in the first run since the reset it has succeeded in the
\* current run.
C28_FlagMeansSucceededSinceReset ==
  \A c \in Calls :
    Running(c) =>
      /\ \A f \in StepFlags :
           status[f] => \E d \in Calls : SucceededIn(d, f)
      /\ (\A d \in Calls : result[d] # "rejected") =>
           \A f \in StepFlags : status[f] => SucceededIn(c, f)

\* a retry after a run that failed in Scate is in progress, and
\* adjustInitialized is true before the retry has made its Adjust store call
C28_Witness ==
  \E c, d \in Calls :
    /\ Running(c)
    /\ result[d] = "rejected"
    /\ status.adjustInitialized
    /\ ~SucceededIn(c, "adjustInitialized")
    /\ SucceededIn(d, "adjustInitialized")

\* the calls whose run has got to the ADID retrieval step
AdidRuns == {c \in Calls : \E i \in 1..Len(log[c]) : log[c][i].step = "ADID"}

\* C29: between two reset() calls the ADID retrieval step runs at most once.
\* It is reached only in a run whose earlier store calls all succeeded; it
\* never fails the run, which ends Completed; and every call made after that
\* returns at once, changing nothing and making no store call.
C29_AdidStepAtMostOnce ==
  /\ [](/\ Invocations("ADID") <= 1
        /\ Cardinality(AdidRuns) <= 1
        /\ \A c \in AdidRuns :
             /\ \A i \in 1..Len(log[c]) :
                  log[c][i].step # "ADID" => log[c][i].outcome = "ok"
             /\ \A s \in {"RevenueCat", "Adjust", "Scate"} :
                  Has(log[c], Entry(s, "ok"))
             /\ thrown[c] = Null
             /\ pc[c] = "done" => (result[c] = "completed" /\ status.isCompleted)
        /\ status.isCompleted => Cardinality(AdidRuns) = 1)
  /\ [][\A c \in Calls :
          (status.isCompleted /\ pc[c] = "idle" /\ pc'[c] # "idle") =>
             /\ pc'[c] = "done"
             /\ result'[c] = "skippedCompleted"
             /\ status' = status
             /\ log' = log]_vars

\* two runs have failed, a third has run the ADID step and completed
C29_Witness ==
  /\ Cardinality({c \in Calls : result[c] = "rejected"}) = 2
  /\ \E c \in AdidRuns : result[c] = "completed"
  /\ Invocations("ADID") = 1

(***************************************************************************)
(* The backoff of retrieveAdidWithRetry, checked under SpecRetry.          *)
(***************************************************************************)
\* lines 49-50, evaluated in a state in which an iteration has just begun
Remaining(r) == r.maxTotalTimeMs - Elapsed(r) - r.cumulativeDelay

\* C23: there is no delay before attempt 1, so maxAttempts = 1 (with a
\* positive budget) performs exactly one attempt with no delay; the delay
\* before each attempt k >= 2 equals min(initialDelayMs * 2^(k-2), remaining)
\* with remaining = maxTotalTimeMs - elapsed - cumulativeDelay at the start
\* of that iteration, and the timer runs for at least that long; with ample
\* budget the delays are initialDelayMs times 1, 2, 4, ...
C23_BackoffDelays ==
  /\ [](/\ retry.pc = "delay" =>
             /\ retry.attempt >= 2
             /\ retry.delay = Min(retry.initialDelayMs * 2^(retry.attempt - 2),
                                  Remaining(retry))
             /\ Remaining(retry) >= retry.initialDelayMs * 2^(retry.attempt - 2)
                  => retry.delay = retry.initialDelayMs * 2^(retry.attempt - 2)
        /\ retry.lookups # <<>> =>
             /\ retry.lookups[1].attempt = 1
             /\ retry.lookups[1].at = 0
        /\ retry.attempt <= 1 => retry.cumulativeDelay = 0
        /\ (retry.maxAttempts = 1 /\ retry.maxTotalTimeMs >= 1) =>
             /\ retry.pc # "delay"
             /\ retry.cumulativeDelay = 0
             /\ retry.pc \in {"lookup", "done"} => Len(retry.lookups) = 1)
  /\ [][(retry.pc = "delay" /\ retry'.pc # "delay") =>
          /\ retry'.now - retry.now >= retry.delay
          /\ retry'.cumulativeDelay = retry.cumulativeDelay + retry.delay]_vars

\* initialDelayMs = 1 unit: after delays of 1 and 2 units the call is in the
\* delay of 4 units before attempt 4
C23_Witness ==
  /\ retry.pc = "delay"
  /\ retry.initialDelayMs = 1
  /\ retry.attempt = 4
  /\ retry.cumulativeDelay = 3
  /\ retry.delay = 4

\* C24: at the start of each iteration the remaining budget is recomputed as
\* maxTotalTimeMs - elapsed - cumulativeDelay; if it is <= 0 the call makes
\* neither a delay nor a lookup for that attempt or a later one and returns
\* null; the time spent in backoff delays, a delay in progress included,
\* never exceeds maxTotalTimeMs.
C24_BackoffWithinBudget ==
  /\ [](/\ retry.cumulativeDelay
             + (IF retry.pc = "delay" THEN retry.delay ELSE 0)
             <= retry.maxTotalTimeMs
        /\ retry.pc \in {"delay", "lookup"} => retry.cumulativeDelay >= 0
        /\ retry.exit = "timeoutBeforeAttempt" =>
             /\ retry.pc = "done"
             /\ retry.result = Null
             /\ Remaining(retry) <= 0
             /\ Len(retry.lookups) = retry.attempt - 1)
  /\ [][(retry'.attempt # retry.attempt /\ Remaining(retry') <= 0) =>
          /\ retry'.pc = "done"
          /\ retry'.result = Null
          /\ retry'.cumulativeDelay = retry.cumulativeDelay
          /\ Len(retry'.lookups) = Len(retry.lookups)]_vars
  /\ [][retry.pc = "done" => retry' = retry]_vars

\* the call has stopped before attempt 3 because the delays already count
\* twice against the budget, while wall-clock budget is still left
C24_Witness ==
  /\ retry.exit = "timeoutBeforeAttempt"
  /\ retry.attempt = 3
  /\ retry.cumulativeDelay > 0
  /\ Elapsed(retry) < retry.maxTotalTimeMs

(***************************************************************************)
(* requireAuth, checked under SpecAuth.                                    *)
(***************************************************************************)
\* the four checks of the hook, as the request went through them
ChecksPassed ==
  /\ auth.header.present
  /\ StartsWith(auth.header.value, BearerPrefix)
  /\ auth.verify = "returned"
  /\ Validate(auth.payload)
  /\ auth.userExists = "yes"

\* C21: request.user and request.token are attached only if the Authorization
\* header starts with "Bearer ", the token verifies, the decoded payload
\* passes the validation against the JWT payload schema and the user still
\* exists; then they are the validated payload and the text after the
\* prefix, and no reply is sent.  If a check fails, neither is attached and
\* the reply is sent with the status code of the normalized error.
C21_AttachOnlyWhenAllChecksPass ==
  /\ (auth.hasUser \/ auth.hasToken) =>
       /\ ChecksPassed
       /\ auth.pc = "done"
       /\ auth.hasUser /\ auth.user = Coerce(auth.payload)
       /\ auth.hasToken /\ auth.token = Substring7(auth.header.value)
       /\ ~auth.replied
  /\ (auth.pc = "done" /\ ~ChecksPassed) =>
       /\ ~auth.hasUser /\ ~auth.hasToken
       /\ auth.replied
       /\ auth.error # "none"
       /\ auth.replyStatus = StatusCode(NormalizeError(auth.error))
  /\ (auth.pc = "done" /\ ChecksPassed) => (auth.hasUser /\ auth.hasToken)
  /\ auth.pc # "done" => (~auth.replied /\ ~auth.hasUser /\ ~auth.hasToken)

\* a token that verified with a well-formed payload, but the user is gone:
\* nothing is attached and the reply carries the status of userNotFound
C21_Witness ==
  /\ auth.pc = "done"
  /\ auth.header.value = BearerPrefix \o <<"t">>
  /\ auth.verify = "returned"
  /\ Validate(auth.payload)
  /\ auth.userExists = "no"
  /\ auth.replyStatus = StatusCode("userNotFound")

(***************************************************************************)
(* The response interceptor, checked under SpecApi.                        *)
(***************************************************************************)
\* the error of request r reaches the caller in this step
Reaches(r) == api.pc[r] # "done" /\ api'.pc[r] = "done" /\ api'.status[r] # "2xx"

\* C22: whenever an API response has status 401 the interceptor removes the
\* stored 'auth-storage' entry before the error reaches the caller, and the
\* error is still rejected to the caller; for any other error status the
\* stored entry is left unchanged.
C22_Unauthorized401ClearsAuth ==
  [][\A r \in Requests :
       Reaches(r) =>
         /\ api'.outcome[r] = "rejectedWithError"
         /\ IF api'.status[r] = "401"
              THEN api'.stored = Null
              ELSE api'.stored = api.stored]_vars

(***************************************************************************)
(* The navigation effect, checked under SpecNav.                           *)
(***************************************************************************)
\* C30: the effect never redirects while session, subscription or onboarding
\* status is loading or while a session error is set; when it redirects, the
\* target is '/(tabs)' or '/(onboarding)/page-1' and the rule evaluated on
\* the new segments, everything else unchanged, asks for no navigation.
C30_NavigationIsIdempotent ==
  /\ [][NavigationEffect =>
          /\ (Waiting(nav) \/ nav.sessionError) => nav'.segments = nav.segments
          /\ nav'.segments # nav.segments =>
               /\ nav'.did = "replace"
               /\ nav'.segments \in {TabsRoute, OnboardingRoute}
               /\ ~Waiting(nav') /\ ~nav'.sessionError
               /\ ~IsInCriticalScreen(nav'.segments)
               /\ TargetRoute(nav') = NoRoute]_vars
  /\ [][(NavigationEffect /\ nav.did = "replace") =>
          nav'.segments = nav.segments]_vars

\* without a subscription and with onboarding completed, the effect has
\* sent the app from a route it does not allow to '/(tabs)'
C30_Witness ==
  /\ nav.did = "replace"
  /\ nav.segments = TabsRoute
  /\ nav.hasCompletedOnboarding = "true"
  /\ nav.customerInfo = "noEntitlements"

====
